---- MODULE Spec2Model ----
(***************************************************************************)
(* Model of the session-vote view of src/bot.py (class SessionVoteView).   *)
(*                                                                         *)
(* One vote prompt (one SessionVoteView instance) is modelled.  Every      *)
(* click on "Vote" or "View Voters" starts a run of the coroutine          *)
(* vote_button or view_voters_button for the clicking user.  A coroutine   *)
(* runs without interruption between two awaits, so every action below is  *)
(* the code between two consecutive awaits; pc[u] names the await at which *)
(* the run of user u is suspended.  Every awaited Discord call either      *)
(* returns or raises; both outcomes are separate actions (...Ok / ...Fail) *)
(* and either may happen whenever the call is made.  A raise that no try   *)
(* block catches ends the run (discord.py reports it in View.on_error).    *)
(*                                                                         *)
(* A user has at most one run in progress, and clicks arrive only while    *)
(* the prompt message exists: message.delete() (line 162) and              *)
(* delete_original_response() (line 167) remove the buttons.  The test     *)
(* `if interaction.message` (line 161) is true for every button click.     *)
(* Variables marked "history" are not state of the program; they record    *)
(* what happened so that properties can be stated.                         *)
(*                                                                         *)
(* Specifications: Spec (every interleaving, every call may raise),        *)
(* SpecSeq (handlers one after another, no raise), SpecAny (SpecSeq for    *)
(* any threshold the constructor accepts), SpecLive (every interleaving,   *)
(* no raise, suspended runs are resumed), SpecSessions (a second view,     *)
(* made by the session command, next to the first) and SpecInfract (the    *)
(* infract command parsing its trailing words).                            *)
(***************************************************************************)
EXTENDS Integers, FiniteSets, Sequences, TLC

\* ---------------------------------------------------------------- bounds
NumUsers == 2
MaxThreshold == 4
\* The least threshold handed to the constructor (an int, not validated).
MinThreshold == -1

Users == 1..NumUsers

VARIABLES
  voters,          \* self.voters
  vote_threshold,  \* self.vote_threshold
  starter,         \* self.starter: a user, or 0 for None
  label,           \* n of self.vote_button.label = "Vote (n)"
  pc,              \* per user: the await at which the user's run is suspended, "idle" if none
  vote_count,      \* per run: the local vote_count
  voter_mentions,  \* per run: the local voter_mentions (the users it mentions, in order)
  promptDeleted,   \* the message carrying the buttons has been deleted
  announcements,   \* history: how many "Session Start Up!" messages were sent: "none", "one", "many"
  crossVoters,     \* history, per run: self.voters right after the run's toggle, if that count was >= the threshold
  logged,          \* history, per run: logger.exception("Failed to delete ...") was called
  raised,          \* history: the uncaught raise of the latest step, if it was one
  twice,           \* history: the latest step was a toggle by the user of the toggle before it, no clear between them
  orig,            \* history: if twice, self.voters right before the first of the two toggles
  kind,            \* history, per run: what the run's toggle did, "add" or "remove"
  lastTog,         \* history: the user of the latest toggle, 0 after a clear
  before,          \* history: self.voters right before the latest toggle
  report,          \* history: what the click of the latest step made view_voters_button send, if it was one
  view,            \* the view made by the session command (line 261), if any: its fields
  pcv,             \* per user: the await at which the user's run on that view is suspended
  vote_countv,     \* per run on that view: the local vote_count
  parts,           \* the infract command's parts = reason_and_type.split() (line 343)
  infraction       \* what the infract command made of parts, if it has run

vars == <<voters, vote_threshold, starter, label, pc, vote_count, voter_mentions,
          promptDeleted, announcements, crossVoters, logged,
          raised, twice, orig, kind, lastTog, before, report,
          view, pcv, vote_countv, parts, infraction>>

\* The awaits of the session start flow (lines 157-204).
StartFlow == {"delete", "defer", "delete_orig", "announce", "reply"}
\* The awaits of a run that added a vote / removed a vote.
AddPath == {"add_edit", "add_ack"} \cup StartFlow
RemovePath == {"rm_edit", "rm_ack"}
\* The awaits of a run of view_voters_button.
ViewPath == {"view_none", "view_list"}

NoRaise == [by |-> 0, op |-> "none", added |-> FALSE]
NoReport == [by |-> 0, notice |-> FALSE, count |-> 0, threshold |-> 0, members |-> <<>>]
\* The step is neither a raise nor a toggle.
NoToggleNote == raised' = NoRaise /\ twice' = FALSE /\ orig' = {}
\* The step is neither a raise nor a toggle nor a click on "View Voters":
\* nothing to note about it.
NoNote == NoToggleNote /\ report' = NoReport

\* `for uid in self.voters` (lines 200, 213): CPython visits the slots of the
\* set's table in order, and an int below the table size (8) sits in the slot
\* of its own value; so the ids come in ascending order.
RECURSIVE SetIter(_)
SetIter(S) ==
  IF S = {} THEN <<>>
  ELSE LET m == CHOOSE x \in S : \A y \in S : x <= y
       IN <<m>> \o SetIter(S \ {m})

\* One more announcement.
More(n) == IF n = "none" THEN "one" ELSE "many"

\* Variant: the start test is "remaining < 0" instead of "remaining <= 0".
RemainingStrict(u) == vote_threshold - vote_count[u] + 1

\* remaining = self.vote_threshold - vote_count
Remaining(u) == vote_threshold - vote_count[u]

\* The threshold the session command hands to the constructor (line 261).
SessionThreshold == 8

\* The members who hold the role the session command requires (lines 242-243).
Staff == {1}

\* No view has been made by the session command.
NoView == [made |-> FALSE, author |-> 0, voters |-> {}, vote_threshold |-> 0,
           starter |-> 0, label |-> 0]

\* The infract command's input and what it made of it.
parsing == <<parts, infraction>>

\* The infract command has not run.
NoInfraction == [error |-> "", infraction_type |-> "", type_at |-> 0,
                 duration |-> "", reason |-> <<>>]

\* The other view and the runs of its handlers.
otherView == <<view, pcv, vote_countv>>

\* What __init__ stores and no method assigns again.
config == <<vote_threshold, starter>>

\* SessionVoteView.__init__(threshold=t, starter=s)
Constructed(t, s) ==
  /\ voters = {}
  /\ vote_threshold = t
  /\ starter = s
  /\ label = 0
  /\ pc = [u \in Users |-> "idle"]
  /\ vote_count = [u \in Users |-> 0]
  /\ voter_mentions = [u \in Users |-> <<>>]
  /\ promptDeleted = FALSE
  /\ announcements = "none"
  /\ crossVoters = [u \in Users |-> {}]
  /\ logged = [u \in Users |-> FALSE]
  /\ raised = NoRaise
  /\ kind = [u \in Users |-> "none"]
  /\ lastTog = 0
  /\ before = {}
  /\ twice = FALSE
  /\ orig = {}
  /\ report = NoReport
  /\ view = NoView
  /\ pcv = [u \in Users |-> "idle"]
  /\ vote_countv = [u \in Users |-> 0]

\* The infract command is not in use.
NoInfract ==
  /\ parts = <<>>
  /\ infraction = NoInfraction

\* A view constructed with a threshold of 1 or more and the default starter.
Init == NoInfract /\ \E t \in 1..MaxThreshold : Constructed(t, 0)

\* A view constructed with any threshold and any starter.
InitAny ==
  NoInfract /\ \E t \in MinThreshold..MaxThreshold, s \in Users \cup {0} : Constructed(t, s)

\* The runs in progress.
Running == {v \in Users : pc[v] # "idle"}

\* A click reaches the view only while the prompt message exists, and the
\* user's previous interaction has been answered or has failed.
CanClick(u) ==
  /\ pc[u] = "idle"
  /\ ~promptDeleted

\* History bookkeeping shared by both branches of the toggle.
NoteToggle(u, how) ==
  /\ crossVoters' = [crossVoters EXCEPT
                       ![u] = IF Cardinality(voters') >= vote_threshold THEN voters' ELSE {}]
  /\ raised' = NoRaise
  /\ report' = NoReport
  /\ kind' = [kind EXCEPT ![u] = how]
  /\ lastTog' = u
  /\ before' = voters
  /\ twice' = (lastTog = u)
  /\ orig' = IF lastTog = u THEN before ELSE {}

\* Variant: the remove branch does not return but goes on to the edit and
\* the threshold test of the add branch.
VoteRemoveFallsThrough(u) ==
  /\ CanClick(u)
  /\ u \in voters
  /\ voters' = voters \ {u}
  /\ vote_count' = [vote_count EXCEPT ![u] = Cardinality(voters')]
  /\ label' = Cardinality(voters')
  /\ pc' = [pc EXCEPT ![u] = "add_edit"]
  /\ NoteToggle(u, "remove")
  /\ UNCHANGED <<parsing, otherView, config, voter_mentions, promptDeleted, announcements, logged>>

\* Variant: the remove branch empties the set instead of removing the user.
VoteRemoveClears(u) ==
  /\ CanClick(u)
  /\ u \in voters
  /\ voters' = {}
  /\ vote_count' = [vote_count EXCEPT ![u] = Cardinality(voters')]
  /\ label' = Cardinality(voters')
  /\ pc' = [pc EXCEPT ![u] = "rm_edit"]
  /\ NoteToggle(u, "remove")
  /\ UNCHANGED <<parsing, otherView, config, voter_mentions, promptDeleted, announcements, logged>>

\* lines 141-145: the user is a voter: remove, relabel, await edit_message
VoteRemove(u) ==
  /\ CanClick(u)
  /\ u \in voters
  /\ voters' = voters \ {u}
  /\ vote_count' = [vote_count EXCEPT ![u] = Cardinality(voters')]
  /\ label' = Cardinality(voters')
  /\ pc' = [pc EXCEPT ![u] = "rm_edit"]
  /\ NoteToggle(u, "remove")
  /\ UNCHANGED <<parsing, otherView, config, voter_mentions, promptDeleted, announcements, logged>>

\* Variant: vote_count is taken before the add.
VoteAddCountsBefore(u) ==
  /\ CanClick(u)
  /\ u \notin voters
  /\ voters' = voters \cup {u}
  /\ vote_count' = [vote_count EXCEPT ![u] = Cardinality(voters)]
  /\ label' = Cardinality(voters')
  /\ pc' = [pc EXCEPT ![u] = "add_edit"]
  /\ NoteToggle(u, "add")
  /\ UNCHANGED <<parsing, otherView, config, voter_mentions, promptDeleted, announcements, logged>>

\* lines 149-154: the user is not a voter: add, relabel, await edit_message
VoteAdd(u) ==
  /\ CanClick(u)
  /\ u \notin voters
  /\ voters' = voters \cup {u}
  /\ vote_count' = [vote_count EXCEPT ![u] = Cardinality(voters')]
  /\ label' = Cardinality(voters')
  /\ pc' = [pc EXCEPT ![u] = "add_edit"]
  /\ NoteToggle(u, "add")
  /\ UNCHANGED <<parsing, otherView, config, voter_mentions, promptDeleted, announcements, logged>>

\* The run ends: its locals are gone.
End(u) ==
  /\ pc' = [pc EXCEPT ![u] = "idle"]
  /\ vote_count' = [vote_count EXCEPT ![u] = 0]
  /\ voter_mentions' = [voter_mentions EXCEPT ![u] = <<>>]
  /\ crossVoters' = [crossVoters EXCEPT ![u] = {}]
  /\ logged' = [logged EXCEPT ![u] = FALSE]
  /\ kind' = [kind EXCEPT ![u] = "none"]

\* The run ends by return.
Return(u) ==
  /\ End(u)
  /\ NoNote

\* The awaited call op raises and nothing catches it: the run ends.
Raise(u, op) ==
  /\ End(u)
  /\ raised' = [by |-> u, op |-> op, added |-> (kind[u] = "add")]
  /\ twice' = FALSE
  /\ orig' = {}
  /\ report' = NoReport
  /\ UNCHANGED <<parsing, otherView, voters, config, label, promptDeleted,
                 announcements, lastTog, before>>

\* The run goes on to its next await.
Goto(u, where) ==
  /\ pc' = [pc EXCEPT ![u] = where]
  /\ NoNote
  /\ UNCHANGED <<vote_count, voter_mentions, crossVoters, kind>>

state == <<voters, config, label, promptDeleted>>
togHistory == <<lastTog, before>>
otherHistory == <<announcements, logged, togHistory>>

\* line 145 returns, line 146 awaits followup.send
RemoveEditOk(u) ==
  /\ pc[u] = "rm_edit"
  /\ Goto(u, "rm_ack")
  /\ UNCHANGED <<parsing, otherView, state, otherHistory>>

\* line 145 raises
RemoveEditFail(u) ==
  /\ pc[u] = "rm_edit"
  /\ Raise(u, "edit")

\* line 146 returns, line 147 return
RemoveAckOk(u) ==
  /\ pc[u] = "rm_ack"
  /\ Return(u)
  /\ UNCHANGED <<parsing, otherView, state, announcements, togHistory>>

\* line 146 raises
RemoveAckFail(u) ==
  /\ pc[u] = "rm_ack"
  /\ Raise(u, "ack")

\* line 154 returns; lines 156-157 decide; await message.delete() (162) or followup.send (206)
AddEditOk(u) ==
  /\ pc[u] = "add_edit"
  /\ Goto(u, IF Remaining(u) <= 0 THEN "delete" ELSE "add_ack")
  /\ UNCHANGED <<parsing, otherView, state, otherHistory>>

\* Variant: a raise of line 154 takes the vote back before the run ends.
AddEditFailRollsBack(u) ==
  /\ pc[u] = "add_edit"
  /\ End(u)
  /\ raised' = [by |-> u, op |-> "edit", added |-> TRUE]
  /\ twice' = FALSE
  /\ orig' = {}
  /\ report' = NoReport
  /\ voters' = voters \ {u}
  /\ label' = Cardinality(voters')
  /\ UNCHANGED <<parsing, otherView, config, promptDeleted, announcements, togHistory>>

\* line 154 raises
AddEditFail(u) ==
  /\ pc[u] = "add_edit"
  /\ Raise(u, "edit")

\* line 206 returns
AddAckOk(u) ==
  /\ pc[u] = "add_ack"
  /\ Return(u)
  /\ UNCHANGED <<parsing, otherView, state, announcements, togHistory>>

\* line 206 raises
AddAckFail(u) ==
  /\ pc[u] = "add_ack"
  /\ Raise(u, "ack")

\* line 162 returns; lines 172-198 build the announcement, await channel.send
DeleteOk(u) ==
  /\ pc[u] = "delete"
  /\ promptDeleted' = TRUE
  /\ Goto(u, "announce")
  /\ UNCHANGED <<parsing, otherView, voters, config, label, otherHistory>>

\* line 162 raises; line 166 awaits interaction.response.defer()
DeleteFail(u) ==
  /\ pc[u] = "delete"
  /\ Goto(u, "defer")
  /\ UNCHANGED <<parsing, otherView, state, otherHistory>>

\* line 166 returns; line 167 awaits interaction.delete_original_response()
DeferOk(u) ==
  /\ pc[u] = "defer"
  /\ Goto(u, "delete_orig")
  /\ UNCHANGED <<parsing, otherView, state, otherHistory>>

\* Variant: no inner try: a raise of the alternate deletion ends the run.
DeleteRaiseEscapes(u) == Raise(u, "delete")

\* the inner except of lines 168-169: log, then go on with line 172
LogAndContinue(u) ==
  /\ logged' = [logged EXCEPT ![u] = TRUE]
  /\ Goto(u, "announce")
  /\ UNCHANGED <<parsing, otherView, state, announcements, togHistory>>

\* line 166 raises
DeferFail(u) ==
  /\ pc[u] = "defer"
  /\ LogAndContinue(u)

\* line 167 returns
DeleteOrigOk(u) ==
  /\ pc[u] = "delete_orig"
  /\ promptDeleted' = TRUE
  /\ Goto(u, "announce")
  /\ UNCHANGED <<parsing, otherView, voters, config, label, otherHistory>>

\* line 167 raises
DeleteOrigFail(u) ==
  /\ pc[u] = "delete_orig"
  /\ LogAndContinue(u)

\* line 198 returns; line 200 reads self.voters; line 201 awaits session_msg.reply
AnnounceOk(u) ==
  /\ pc[u] = "announce"
  /\ pc' = [pc EXCEPT ![u] = "reply"]
  /\ voter_mentions' = [voter_mentions EXCEPT ![u] = SetIter(voters)]
  /\ announcements' = More(announcements)
  /\ NoNote
  /\ UNCHANGED <<parsing, otherView, state, vote_count, crossVoters, logged, kind, togHistory>>

\* Variant: a raise of line 198 is swallowed and the follow-up is sent anyway.
AnnounceFailGoesOn(u) ==
  /\ pc[u] = "announce"
  /\ Goto(u, "reply")
  /\ UNCHANGED <<parsing, otherView, state, otherHistory>>

\* line 198 raises
AnnounceFail(u) ==
  /\ pc[u] = "announce"
  /\ Raise(u, "send")

\* Variant: the voters are not cleared after the follow-up.
ReplyOkNoClear(u) ==
  /\ pc[u] = "reply"
  /\ End(u)
  /\ NoNote
  /\ UNCHANGED <<parsing, otherView, state, announcements, togHistory>>

\* Variant: the voters are cleared but the label is left as it was.
ReplyOkStaleLabel(u) ==
  /\ pc[u] = "reply"
  /\ voters' = {}
  /\ End(u)
  /\ NoNote
  /\ lastTog' = 0
  /\ UNCHANGED <<parsing, otherView, config, label, promptDeleted, announcements, before>>

\* line 201 returns; lines 203-204 clear the voters and relabel
ReplyOk(u) ==
  /\ pc[u] = "reply"
  /\ voters' = {}
  /\ label' = 0
  /\ End(u)
  /\ NoNote
  /\ lastTog' = 0
  /\ UNCHANGED <<parsing, otherView, config, promptDeleted, announcements, before>>

\* line 201 raises
ReplyFail(u) ==
  /\ pc[u] = "reply"
  /\ Raise(u, "reply")

\* lines 210-211: nobody has voted: await send_message("No one has voted yet!")
ViewNone(u) ==
  /\ CanClick(u)
  /\ voters = {}
  /\ pc' = [pc EXCEPT ![u] = "view_none"]
  /\ NoToggleNote
  /\ report' = [by |-> u, notice |-> TRUE, count |-> 0, threshold |-> 0, members |-> <<>>]
  /\ UNCHANGED <<parsing, otherView, state, vote_count, voter_mentions, crossVoters, kind, otherHistory>>

\* Variant: listing the voters empties the set.
ViewListClears(u) ==
  /\ CanClick(u)
  /\ voters # {}
  /\ pc' = [pc EXCEPT ![u] = "view_list"]
  /\ NoToggleNote
  /\ report' = [by |-> u, notice |-> FALSE, count |-> Cardinality(voters),
                 threshold |-> vote_threshold, members |-> SetIter(voters)]
  /\ voters' = {}
  /\ UNCHANGED <<parsing, otherView, config, label, promptDeleted, vote_count, voter_mentions,
                 crossVoters, kind, otherHistory>>

\* lines 213-214: list the voters: await send_message("**Current Voters (n/t):** ...")
ViewList(u) ==
  /\ CanClick(u)
  /\ voters # {}
  /\ pc' = [pc EXCEPT ![u] = "view_list"]
  /\ NoToggleNote
  /\ report' = [by |-> u, notice |-> FALSE, count |-> Cardinality(voters),
                 threshold |-> vote_threshold, members |-> SetIter(voters)]
  /\ UNCHANGED <<parsing, otherView, state, vote_count, voter_mentions, crossVoters, kind, otherHistory>>

\* line 211 or line 214 returns
ViewOk(u) ==
  /\ pc[u] \in ViewPath
  /\ Return(u)
  /\ UNCHANGED <<parsing, otherView, state, announcements, togHistory>>

\* line 211 or line 214 raises
ViewFail(u) ==
  /\ pc[u] \in ViewPath
  /\ Raise(u, "view")

\* SessionVoteView.view_voters_button up to its await
view_voters_button(u) == ViewNone(u) \/ ViewList(u)

\* SessionVoteView.vote_button up to its first await
vote_button(u) == VoteRemove(u) \/ VoteAdd(u)

Next ==
  \E u \in Users :
    \/ VoteRemove(u)
    \/ VoteAdd(u)
    \/ RemoveEditOk(u)
    \/ RemoveEditFail(u)
    \/ RemoveAckOk(u)
    \/ RemoveAckFail(u)
    \/ AddEditOk(u)
    \/ AddEditFail(u)
    \/ AddAckOk(u)
    \/ AddAckFail(u)
    \/ DeleteOk(u)
    \/ DeleteFail(u)
    \/ DeferOk(u)
    \/ DeferFail(u)
    \/ DeleteOrigOk(u)
    \/ DeleteOrigFail(u)
    \/ AnnounceOk(u)
    \/ AnnounceFail(u)
    \/ ReplyOk(u)
    \/ ReplyFail(u)
    \/ ViewNone(u)
    \/ ViewList(u)
    \/ ViewOk(u)
    \/ ViewFail(u)

Spec == Init /\ [][Next]_vars

\* Handlers run one after another to completion and no awaited call raises.
NoneRunning == Running = {}

NextSeq ==
  \E u \in Users :
    \/ NoneRunning /\ VoteRemove(u)
    \/ NoneRunning /\ VoteAdd(u)
    \/ RemoveEditOk(u)
    \/ RemoveAckOk(u)
    \/ AddEditOk(u)
    \/ AddAckOk(u)
    \/ DeleteOk(u)
    \/ AnnounceOk(u)
    \/ ReplyOk(u)
    \/ NoneRunning /\ ViewNone(u)
    \/ NoneRunning /\ ViewList(u)
    \/ ViewOk(u)

SpecSeq == Init /\ [][NextSeq]_vars

\* No awaited call raises, and every suspended run is resumed in the end:
\* the event loop resumes a coroutine when the call it awaits has completed.
NextLive ==
  \E u \in Users :
    \/ VoteRemove(u)
    \/ VoteAdd(u)
    \/ RemoveEditOk(u)
    \/ RemoveAckOk(u)
    \/ AddEditOk(u)
    \/ AddAckOk(u)
    \/ DeleteOk(u)
    \/ AnnounceOk(u)
    \/ ReplyOk(u)
    \/ ViewNone(u)
    \/ ViewList(u)
    \/ ViewOk(u)

\* The awaited call of the run of user u returns.
Resume(u) ==
  \/ RemoveEditOk(u)
  \/ RemoveAckOk(u)
  \/ AddEditOk(u)
  \/ AddAckOk(u)
  \/ DeleteOk(u)
  \/ AnnounceOk(u)
  \/ ReplyOk(u)
  \/ ViewOk(u)

SpecLive == Init /\ [][NextLive]_vars /\ \A u \in Users : WF_vars(Resume(u))

\* -------------------------------------------------- a second vote session
\* Variant: the command leaves the starter at the constructor's default.
sessionNoStarter(author) ==
  /\ author \in Staff
  /\ ~view.made
  /\ view' = [made |-> TRUE, author |-> author, voters |-> {},
               vote_threshold |-> SessionThreshold, starter |-> 0, label |-> 0]
  /\ NoNote
  /\ UNCHANGED <<parsing, pcv, vote_countv, state, pc, vote_count, voter_mentions,
                 crossVoters, kind, otherHistory>>

\* BasicCommands.session (lines 240-262) run by a member with the required
\* role: it constructs a view with threshold 8 and the member as starter and
\* posts it.  One such view is modelled next to the one above.
session(author) ==
  /\ author \in Staff
  /\ ~view.made
  /\ view' = [made |-> TRUE, author |-> author, voters |-> {},
               vote_threshold |-> SessionThreshold, starter |-> author, label |-> 0]
  /\ NoNote
  /\ UNCHANGED <<parsing, pcv, vote_countv, state, pc, vote_count, voter_mentions,
                 crossVoters, kind, otherHistory>>

\* What a step of a run on the other view leaves alone: everything of the
\* first view and of its runs.
thisView == <<state, pc, vote_count, voter_mentions, crossVoters, kind, otherHistory>>

\* The runs on the other view are handled one after another.
CanClickOther(u) ==
  /\ view.made
  /\ \A v \in Users : pcv[v] = "idle"

\* lines 141-145 with self = the other view
OtherVoteRemove(u) ==
  /\ CanClickOther(u)
  /\ u \in view.voters
  /\ view' = [view EXCEPT !.voters = @ \ {u}, !.label = Cardinality(view.voters \ {u})]
  /\ vote_countv' = [vote_countv EXCEPT ![u] = Cardinality(view.voters \ {u})]
  /\ pcv' = [pcv EXCEPT ![u] = "rm_edit"]
  /\ NoNote
  /\ UNCHANGED <<parsing, thisView>>

\* Variant: the voters are one set shared by all views.
OtherVoteAddShared(u) ==
  /\ CanClickOther(u)
  /\ u \notin view.voters
  /\ view' = [view EXCEPT !.voters = @ \cup {u}, !.label = Cardinality(view.voters \cup {u})]
  /\ vote_countv' = [vote_countv EXCEPT ![u] = Cardinality(view.voters \cup {u})]
  /\ pcv' = [pcv EXCEPT ![u] = "add_edit"]
  /\ NoNote
  /\ voters' = voters \cup {u}
  /\ UNCHANGED <<parsing, config, label, promptDeleted, pc, vote_count, voter_mentions,
                 crossVoters, kind, otherHistory>>

\* lines 149-154 with self = the other view
OtherVoteAdd(u) ==
  /\ CanClickOther(u)
  /\ u \notin view.voters
  /\ view' = [view EXCEPT !.voters = @ \cup {u}, !.label = Cardinality(view.voters \cup {u})]
  /\ vote_countv' = [vote_countv EXCEPT ![u] = Cardinality(view.voters \cup {u})]
  /\ pcv' = [pcv EXCEPT ![u] = "add_edit"]
  /\ NoNote
  /\ UNCHANGED <<parsing, thisView>>

\* line 145 or 154 returns on the other view; the test of line 157 is false
\* there (threshold 8, fewer than 8 users), so the run goes to line 146 or 206
OtherEditOk(u) ==
  /\ pcv[u] \in {"rm_edit", "add_edit"}
  /\ pcv[u] = "add_edit" => view.vote_threshold - vote_countv[u] > 0
  /\ pcv' = [pcv EXCEPT ![u] = IF pcv[u] = "rm_edit" THEN "rm_ack" ELSE "add_ack"]
  /\ NoNote
  /\ UNCHANGED <<parsing, view, vote_countv, thisView>>

\* lines 210-214 with self = the other view
OtherViewVoters(u) ==
  /\ CanClickOther(u)
  /\ pcv' = [pcv EXCEPT ![u] = "view"]
  /\ NoNote
  /\ UNCHANGED <<parsing, view, vote_countv, thisView>>

\* The last await of a run on the other view returns (lines 146, 206, 211,
\* 214), or an await of the run raises: the run ends.
OtherEnd(u) ==
  /\ pcv[u] # "idle"
  /\ pcv' = [pcv EXCEPT ![u] = "idle"]
  /\ vote_countv' = [vote_countv EXCEPT ![u] = 0]
  /\ NoNote
  /\ UNCHANGED <<parsing, view, thisView>>

\* Two views: the handlers of each view run one after another, the runs on
\* one view interleave with the runs on the other, and every awaited call
\* returns or raises.
NextSessions ==
  \E u \in Users :
    \/ NoneRunning /\ VoteRemove(u)
    \/ NoneRunning /\ VoteAdd(u)
    \/ RemoveEditOk(u)
    \/ RemoveEditFail(u)
    \/ RemoveAckOk(u)
    \/ RemoveAckFail(u)
    \/ AddEditOk(u)
    \/ AddEditFail(u)
    \/ AddAckOk(u)
    \/ AddAckFail(u)
    \/ DeleteOk(u)
    \/ DeleteFail(u)
    \/ DeferOk(u)
    \/ DeferFail(u)
    \/ DeleteOrigOk(u)
    \/ DeleteOrigFail(u)
    \/ AnnounceOk(u)
    \/ AnnounceFail(u)
    \/ ReplyOk(u)
    \/ ReplyFail(u)
    \/ NoneRunning /\ ViewNone(u)
    \/ NoneRunning /\ ViewList(u)
    \/ ViewOk(u)
    \/ ViewFail(u)
    \/ session(u)
    \/ OtherVoteRemove(u)
    \/ OtherVoteAdd(u)
    \/ OtherEditOk(u)
    \/ OtherViewVoters(u)
    \/ OtherEnd(u)

SpecSessions == Init /\ [][NextSessions]_vars

\* Any view the constructor accepts.
SpecAny == InitAny /\ [][NextSeq]_vars

\* --------------------------------------------------- the infract command
\* The most words in reason_and_type.
MaxWords == 3

\* valid_types (line 329)
valid_types == {"warning", "strike", "demotion", "suspension", "termination"}

\* The words a moderator may type: a plain word, a duration, and type words in
\* lower case and capitalised.
Words == {"late", "7d", "warning", "suspension", "Suspension"}

\* str.lower() on those words
lower(w) ==
  CASE w = "Suspension" -> "suspension"
    [] OTHER -> w

\* reason_and_type.split() (line 343): any list of at most MaxWords words.
Splits == UNION {[1..n -> Words] : n \in 0..MaxWords}

\* The command sends an error embed with this title and returns.
Rejected(title) ==
  [error |-> title, infraction_type |-> "", type_at |-> 0, duration |-> "", reason |-> <<>>]

\* The command goes on to build the infraction embed (lines 377-398) with
\* these locals: the type, the duration ("" for None) and the reason, kept as
\* the words that " ".join puts together; type_at is the place in parts of the
\* word the type was read from.
Accepted(type, at, dur, words) ==
  [error |-> "", infraction_type |-> type, type_at |-> at, duration |-> dur, reason |-> words]

\* parts[:-k]
DropLast(p, k) == SubSeq(p, 1, Len(p) - k)

\* lines 344-375
Parse(p) ==
  IF Len(p) < 2 THEN Rejected("Missing Infraction Type")
  ELSE
    LET n == Len(p)
        infraction_type == lower(p[n])
    IN  IF infraction_type \notin valid_types
        THEN IF n >= 3 /\ lower(p[n - 1]) \in valid_types
             THEN Accepted(lower(p[n - 1]), n - 1, p[n], DropLast(p, 2))
             ELSE Rejected("Invalid Infraction Type")
        ELSE IF infraction_type = "suspension" /\ n >= 3
             THEN Accepted(infraction_type, n, p[n], DropLast(p, 2))
        ELSE IF infraction_type = "suspension"
             THEN Rejected("Suspension Requires Duration")
        ELSE Accepted(infraction_type, n, "", DropLast(p, 1))

\* The command has been given reason_and_type and has not parsed it yet.
InitInfract ==
  /\ Constructed(1, 0)
  /\ parts \in Splits
  /\ infraction = NoInfraction

\* BasicCommands.infract from line 343 to the embed it sends.
infract ==
  /\ infraction = NoInfraction
  /\ infraction' = Parse(parts)
  /\ UNCHANGED <<parts, thisView, otherView, raised, twice, orig, report>>

NextInfract == infract

SpecInfract == InitInfract /\ [][NextInfract]_vars

TypeOK ==
  /\ voters \subseteq Users
  /\ vote_threshold \in MinThreshold..MaxThreshold
  /\ starter \in Users \cup {0}
  /\ label \in 0..NumUsers
  /\ pc \in [Users -> {"idle"} \cup AddPath \cup RemovePath \cup ViewPath]
  /\ vote_count \in [Users -> 0..NumUsers]
  /\ \A u \in Users : voter_mentions[u] \in {SetIter(S) : S \in SUBSET Users}
  /\ promptDeleted \in BOOLEAN
  /\ announcements \in {"none", "one", "many"}
  /\ lastTog \in Users \cup {0}
  /\ view.voters \subseteq Users
  /\ view.made => view.label = Cardinality(view.voters)
  /\ pcv \in [Users -> {"idle", "rm_edit", "rm_ack", "add_edit", "add_ack", "view"}]
  /\ vote_countv \in [Users -> 0..NumUsers]
  /\ parts \in Splits
  /\ infraction.error \in {"", "Missing Infraction Type", "Invalid Infraction Type",
                           "Suspension Requires Duration"}

\* ---------------------------------------------------------------- claims

\* A step in which user u clicks "Vote" (a run of vote_button starts).
Toggles(u) == pc[u] = "idle" /\ pc'[u] \in {"rm_edit", "add_edit"}
\* A step in which the run of user u ends, by return or by an uncaught raise.
Ends(u) == pc[u] # "idle" /\ pc'[u] = "idle"
\* The toggle of the run of user u brought the count to the threshold or above.
Crossing(u) == kind[u] = "add" /\ vote_count[u] >= vote_threshold
Flip(S, u) == IF u \in S THEN S \ {u} ELSE S \cup {u}

\* C1: with handlers run one after another and no failing call, the session
\* start announcement is sent exactly once, by the run of the first toggle
\* whose resulting count is >= the threshold: no run takes the start flow
\* unless its own toggle brought the count to the threshold, every such run
\* has sent the one announcement when it ends, and after the announcement no
\* toggle follows.
C1_StartAtFirstCrossing ==
  /\ [](announcements # "many")
  /\ [](\A u \in Users : pc[u] \in StartFlow =>
          (u \in crossVoters[u] /\ Cardinality(crossVoters[u]) >= vote_threshold))
  /\ [][\A u \in Users :
          /\ (Toggles(u) /\ Cardinality(voters') >= vote_threshold) => announcements = "none"
          /\ (crossVoters[u] # {} /\ Ends(u)) => (announcements' = "one" /\ voters' = {})
          /\ announcements # "none" => ~Toggles(u)]_vars

C1_Witness ==
  /\ announcements = "one"
  /\ Running = {}
  /\ voters = {}
  /\ vote_threshold = 2
  /\ promptDeleted

\* C2: under any interleaving at most one run per session executes the
\* session start flow and sends the announcement.
C2_AtMostOneStartFlow ==
  /\ Cardinality({u \in Users : pc[u] \in StartFlow}) <= 1
  /\ announcements # "many"

\* C3: once the announcement has been sent, a click on "Vote" is rejected:
\* it changes neither the voters nor the count shown, and starts no run that
\* acknowledges a vote or starts the session again.
C3_ClickAfterStartRejected ==
  [][announcements # "none" =>
       \A u \in Users : Toggles(u) => (voters' = voters /\ label' = label)]_vars

\* C4: the voters mentioned in the follow-up are exactly the voters right
\* after the crossing toggle.
C4_MentionsAreCrossingVoters ==
  \A u \in Users : pc[u] = "reply" => voter_mentions[u] = SetIter(crossVoters[u])

\* C5: at every suspension point and between handlers, a session whose
\* start has not been announced has fewer voters than the threshold.
C5_CollectingBelowThreshold ==
  announcements = "none" => Cardinality(voters) < vote_threshold

\* C6: a run whose toggle removed the user never executes the session start
\* flow, also when the count left by the removal is >= the threshold.
C6_RemoveNeverStarts ==
  \A u \in Users : kind[u] = "remove" => pc[u] \in RemovePath

C6_Witness ==
  \E u \in Users : kind[u] = "remove" /\ pc[u] = "rm_ack" /\ vote_count[u] >= vote_threshold

\* C7: a toggle by user u flips the membership of u and of nobody else, and
\* two consecutive toggles by the same user (no other toggle and no clear
\* between them) restore the voters and the count shown.
C7_ToggleAlternates ==
  /\ [](twice => (voters = orig /\ label = Cardinality(orig)))
  /\ [][\A u \in Users : Toggles(u) => voters' = Flip(voters, u)]_vars

C7_Witness == twice /\ voters = orig /\ Cardinality(orig) = 2

\* C8: a crossing run concludes the session and clears the voters however it
\* ends, also when one of its awaited calls raises.
C8_FailureStillConcludes ==
  [][\A u \in Users : (Crossing(u) /\ Ends(u)) => voters' = {}]_vars

\* C9: the step in which the edit or the acknowledgement of a toggle raises
\* changes neither the voters nor the count shown and ends the run (the
\* failed call is not tried again); so when that toggle is still the latest
\* change of the voters, the user's membership is what the toggle made it.
C9_NoRollback ==
  /\ [][\A u \in Users :
          (pc[u] # "idle" /\ raised'.by = u /\ raised'.op \in {"edit", "ack"}) =>
            /\ voters' = voters
            /\ label' = label
            /\ pc'[u] = "idle"]_vars
  /\ []((raised.op \in {"edit", "ack"} /\ raised.by = lastTog) =>
          /\ (raised.by \in voters) = raised.added
          /\ pc[raised.by] = "idle")

C9_Witness ==
  /\ raised.op = "edit"
  /\ raised.by = lastTog
  /\ raised.added
  /\ raised.by \in voters
  /\ Cardinality(voters) = 2

\* C10: no raise of the prompt deletion or of the alternate deletion ends the
\* run: when both raise, the failure is logged and the run goes on to send
\* the announcement and the follow-up, and then clears the voters.
C10_DeleteBestEffort ==
  /\ [](\A u \in Users : logged[u] => pc[u] \in {"announce", "reply"})
  /\ [][\A u \in Users :
          /\ (pc[u] \in {"delete", "defer", "delete_orig"} /\ pc'[u] # pc[u]) =>
               (pc'[u] \in StartFlow /\ raised' = NoRaise)
          /\ (pc[u] = "defer" /\ pc'[u] = "announce") => logged'[u]
          /\ (pc[u] = "delete_orig" /\ pc'[u] = "announce" /\ ~promptDeleted') => logged'[u]
          /\ (logged[u] /\ Ends(u) /\ raised' = NoRaise) => voters' = {}]_vars

C10_Witness ==
  \E u \in Users : logged[u] /\ pc[u] = "reply" /\ announcements = "one" /\ ~promptDeleted

\* C11: every view that exists has a threshold of 1 or more (constructing
\* one with a threshold <= 0 fails and leaves no usable view).
C11_ThresholdAtLeastOne == vote_threshold >= 1

\* The crossing toggle has happened: its run is in progress, or the
\* announcement has been sent.
Started == announcements # "none" \/ \E v \in Users : Crossing(v)

\* C12: a click on "View Voters" after the crossing toggle, also while the
\* crossing run is still suspended, reports count 0 and no members.
C12_QueryAfterStartEmpty ==
  (report.by # 0 /\ Started) => (report.count = 0 /\ report.members = <<>>)

\* A step of a run of view_voters_button by user u: the click, or the end.
Queries(u) ==
  \/ pc[u] = "idle" /\ pc'[u] \in ViewPath
  \/ pc[u] \in ViewPath /\ pc'[u] = "idle"

\* C13: no step of view_voters_button changes the voters, the threshold, the
\* starter or the label; a click with no voters is answered with the "No one
\* has voted yet!" notice and raises nothing, a click with voters reports the
\* size of the voter set, the threshold and the voters.
C13_QueryReadOnly ==
  /\ [][\A u \in Users : Queries(u) => UNCHANGED <<voters, config, label>>]_vars
  /\ [](report.by # 0 =>
          /\ raised = NoRaise
          /\ pc[report.by] = (IF voters = {} THEN "view_none" ELSE "view_list")
          /\ report.notice = (voters = {})
          /\ report.count = Cardinality(voters)
          /\ report.members = SetIter(voters)
          /\ ~report.notice => report.threshold = vote_threshold)

C13_Witness ==
  /\ report.by # 0
  /\ report.count = 2
  /\ report.threshold = 3
  /\ report.members = <<1, 2>>

\* C14: an add counts the voters right after it (one more than before), the
\* run keeps that count, and the run that goes on to the acknowledgement
\* "N more votes needed" is the one whose N = threshold - count is >= 1; a
\* run in the session start flow has N <= 0.
C14_AckCountsTheVote ==
  /\ [][\A u \in Users :
          /\ (pc[u] = "idle" /\ pc'[u] = "add_edit") =>
               /\ vote_count'[u] = Cardinality(voters')
               /\ vote_count'[u] = Cardinality(voters) + 1
          /\ (pc[u] \in AddPath /\ pc'[u] # "idle") => vote_count'[u] = vote_count[u]]_vars
  /\ [](\A u \in Users :
          /\ pc[u] = "add_ack" =>
               (vote_count[u] >= 1 /\ vote_threshold - vote_count[u] >= 1 /\ Remaining(u) >= 1)
          /\ pc[u] \in StartFlow => vote_threshold - vote_count[u] <= 0)

C14_Witness ==
  \E u \in Users : pc[u] = "add_ack" /\ vote_count[u] = 2 /\ Remaining(u) = 1

Last(q) == q[Len(q)]
\* The latest change of the voters was an add, by lastTog: in insertion
\* order that user comes last.
LatestAdded == lastTog # 0 /\ lastTog \in voters

\* C15: the follow-up and the answer to "View Voters" name the voters in
\* insertion order; in particular the voter added last is named last.
C15_MentionsInInsertionOrder ==
  /\ [][\A u \in Users :
          (pc[u] = "announce" /\ pc'[u] = "reply" /\ LatestAdded) =>
            Last(voter_mentions'[u]) = lastTog]_vars
  /\ []((report.by # 0 /\ ~report.notice /\ LatestAdded) => Last(report.members) = lastTog)

\* C16: a step of a run on one view (a toggle, a query, or the resumption of
\* a suspended run) changes nothing of the other view: not its voters, label,
\* threshold or starter, not its announcement or prompt, and no run of it.
C16_SessionsIndependent ==
  [][/\ pcv' # pcv => UNCHANGED <<voters, label, config, promptDeleted, announcements,
                                   pc, vote_count, voter_mentions>>
     /\ pc' # pc => UNCHANGED <<view, pcv, vote_countv>>]_vars

C16_Witness ==
  /\ view.made
  /\ view.voters = {1}
  /\ pcv[1] = "add_edit"
  /\ voters = {2}
  /\ pc[2] = "announce"

\* C17: when no awaited call raises and every suspended run is resumed, a
\* voter set that has reached the threshold leads to the announcement having
\* been sent and the voter set being empty.
C17_QuorumStarts ==
  (Cardinality(voters) >= vote_threshold) ~> (announcements # "none" /\ voters = {})

C17_Witness ==
  /\ announcements = "one"
  /\ voters = {}
  /\ vote_threshold = 2
  /\ \E u \in Users : pc[u] = "add_ack"

\* C18: at every suspension point and between handlers the label "Vote (n)"
\* has n = the size of the voter set (0 at creation), and every step that
\* changes the voter set sets the label in the same step.
C18_LabelIsCount ==
  /\ [](label = Cardinality(voters))
  /\ [][voters' # voters => label' = Cardinality(voters')]_vars

C18_Witness ==
  /\ label = 2
  /\ \E u \in Users : pc[u] = "reply"

\* C19: in a run of the start flow the prompt deletion is attempted before
\* the announcement is sent, the follow-up is sent only by a run whose
\* announcement has just been sent, the voters are cleared only by the step
\* in which the follow-up returns, and a raise of the announcement or of the
\* follow-up ends the run with the voters as they were.
C19_StartFlowOrdered ==
  [][\A u \in Users :
       /\ (pc'[u] = "delete" /\ pc[u] # "delete") => pc[u] = "add_edit"
       /\ (pc'[u] = "announce" /\ pc[u] # "announce") =>
            pc[u] \in {"delete", "defer", "delete_orig"}
       /\ (pc'[u] = "reply" /\ pc[u] # "reply") =>
            (pc[u] = "announce" /\ announcements' = More(announcements))
       /\ (pc[u] \in StartFlow /\ pc'[u] # pc[u] /\ voters' # voters) =>
            (pc[u] = "reply" /\ raised' = NoRaise /\ voters' = {})
       /\ (pc[u] # "idle" /\ raised'.by = u /\ raised'.op \in {"send", "reply"}) =>
            (voters' = voters /\ pc'[u] = "idle")]_vars

C19_Witness ==
  /\ raised.op = "reply"
  /\ voters # {}
  /\ announcements = "one"

\* C20: no step (toggle, query, session start, raising call, on either view)
\* changes the threshold or the starter of a view, and the view made by the
\* session command has threshold 8 and the member who ran the command as
\* starter.
C20_ConfigFixed ==
  /\ [][/\ config' = config
         /\ view.made => /\ view'.made
                          /\ view'.vote_threshold = view.vote_threshold
                          /\ view'.starter = view.starter]_vars
  /\ [](view.made => /\ view.vote_threshold = 8
                      /\ view.author \in Users
                      /\ view.starter = view.author)

C20_Witness ==
  /\ view.made
  /\ view.starter = 1
  /\ view.voters = {2}
  /\ announcements = "one"
  /\ raised.op = "reply"

\* The infract command has parsed parts.
Parsed == infraction # NoInfraction
\* The command went on to send the infraction.
IsAccepted == Parsed /\ infraction.error = ""

\* C21: in the infract command, for every word sequence of length >= 2 whose
\* last word is "suspension" (in any case) the command is rejected with
\* "Suspension Requires Duration"; an accepted suspension has a separate
\* duration word right after the type word; an accepted infraction's duration
\* is never the word the type was read from, and its reason is all the words
\* before the type word.
C21_SuspensionNeedsDuration ==
  /\ Parsed /\ Len(parts) >= 2 /\ lower(parts[Len(parts)]) = "suspension"
       => infraction.error = "Suspension Requires Duration"
  /\ IsAccepted =>
       /\ infraction.infraction_type = "suspension" =>
            /\ infraction.duration # ""
            /\ infraction.type_at = Len(parts) - 1
       /\ infraction.duration # "" =>
            /\ infraction.type_at < Len(parts)
            /\ infraction.duration = parts[infraction.type_at + 1]
       /\ infraction.reason = SubSeq(parts, 1, infraction.type_at - 1)

====
